---- MODULE Spec2Model ----
(***************************************************************************)
(* Model of src/compiler/collections.ts: the Map/Set compatibility layer  *)
(* (native Map versus the dictionary-object ShimMap) and the utilities    *)
(* built on it.                                                            *)
(*                                                                         *)
(* JavaScript values are tagged records, so that the number 1 and the     *)
(* string "1" are different values; strings are sequences of characters.  *)
(***************************************************************************)
EXTENDS Integers, Sequences, FiniteSets, TLC

VARIABLES
    env,        \* which Map the runtime offers: "es6", "es5native" or "shim"
    nativeMap,  \* a native-backed map, driven in lockstep with shimMap
    shimMap,    \* a ShimMap, driven in lockstep with nativeMap
    lastSet,    \* history: per key, the value of the latest set not undone by delete/clear
    map,        \* the map the utilities work on (created by createMap under env)
    other,      \* a second map of the same runtime
    sortInput,  \* the array handed to sortInV8ObjectInsertionOrder
    inputArray, \* the array handed to arrayToMap
    sets,       \* the sets of strings, by name (created by createSet under env)
    objects,    \* the two map-likes handed to equalOwnProperties, by name
    ret         \* the last operation: its name, arguments and results

vars == <<env, nativeMap, shimMap, lastSet, map, other, sortInput, inputArray, sets, objects, ret>>

-----------------------------------------------------------------------------
(* Bounds *)

MaxNum == 1     \* the number keys are 1..MaxNum
MaxVal == 2     \* the values are undefined and the numbers 1..MaxVal
MaxEntries == 2 \* a map holds at most MaxEntries entries
MaxItems == 2   \* the arrays of a multi-map hold at most MaxItems values in total
MaxLen == 5     \* the array to sort has at most MaxLen elements
MaxArr == 3     \* the array handed to arrayToMap has at most MaxArr elements

-----------------------------------------------------------------------------
(* JavaScript values *)

Undefined == [t |-> "undefined"]
Num(n) == [t |-> "number", v |-> n]
Str(s) == [t |-> "string", v |-> s]

Arr(a) == [t |-> "array", v |-> a]

Absent == [t |-> "absent"]      \* history marker only: no key, or no callback result

DigitChars == <<"0", "1", "2", "3", "4", "5", "6", "7", "8", "9">>

\* Number.prototype.toString for a natural number: its decimal digits.
RECURSIVE NumberToString(_)
NumberToString(n) ==
    IF n < 10 THEN <<DigitChars[n + 1]>>
    ELSE NumberToString(n \div 10) \o <<DigitChars[(n % 10) + 1]>>

\* `key as string` used as a property name: a number key is stringified.
PropertyKey(key) == IF key.t = "number" THEN NumberToString(key.v) ELSE key.v

\* the names of the map-likes
ObjectNames == {"left", "right"}

\* the names of the sets, and the strings they hold
SetNames == {"x", "y"}
SetValues == {<<"1">>, <<"2">>, <<"a">>}

\* keys of both types; the string "1" is what the number 1 is stringified to
StringKeys == {<<"1">>, <<"a">>}
Keys == {Num(n) : n \in 1..MaxNum} \cup {Str(str) : str \in StringKeys}
Values == {Undefined} \cup {Num(n) : n \in 1..MaxVal}

-----------------------------------------------------------------------------
(* Objects used as dictionaries: a sequence of [key, value] properties in   *)
(* insertion order, the key a string.                                       *)

RECURSIVE IndexOfKey(_, _, _)
IndexOfKey(entries, k, i) ==
    IF i > Len(entries) THEN 0
    ELSE IF entries[i].key = k THEN i
    ELSE IndexOfKey(entries, k, i + 1)

RemoveAt(s, i) == SubSeq(s, 1, i - 1) \o SubSeq(s, i + 1, Len(s))

\* The object made by createDictionaryModeObject: no prototype, no own property
\* ("__" is added and deleted again).
createDictionaryModeObject == <<>>

\* key in obj (the object has no prototype, so only own properties count)
ObjIn(obj, p) == IndexOfKey(obj, p, 1) # 0
\* obj[key]
ObjGet(obj, p) == IF ObjIn(obj, p) THEN obj[IndexOfKey(obj, p, 1)].value ELSE Undefined
\* obj[key] = value
ObjPut(obj, p, v) ==
    IF ObjIn(obj, p) THEN [obj EXCEPT ![IndexOfKey(obj, p, 1)].value = v]
    ELSE Append(obj, [key |-> p, value |-> v])
\* delete obj[key]
ObjDelete(obj, p) == IF ObjIn(obj, p) THEN RemoveAt(obj, IndexOfKey(obj, p, 1)) ELSE obj

-----------------------------------------------------------------------------
(* Natural-number-like property names and enumeration order *)

Digits == {DigitChars[i] : i \in 1..10}
DigitValue(c) == (CHOOSE i \in 1..10 : DigitChars[i] = c) - 1

\* /^(0|([1-9]\d*))$/.test(s)
LooksLikeNatural(s) ==
    /\ Len(s) >= 1
    /\ \A i \in 1..Len(s) : s[i] \in Digits
    /\ (s[1] = "0" => Len(s) = 1)

\* parseInt(s, 10) of a string that starts with a digit: the value of its
\* leading run of digits.
RECURSIVE ParseIntFrom(_, _, _)
ParseIntFrom(s, i, acc) ==
    IF i > Len(s) \/ s[i] \notin Digits THEN acc
    ELSE ParseIntFrom(s, i + 1, acc * 10 + DigitValue(s[i]))
ParseInt(s) == ParseIntFrom(s, 1, 0)

\* Array.prototype.sort((a, b) => a.n - b.n) on a short array: insertion sort.
RECURSIVE InsertByN(_, _)
InsertByN(sorted, e) ==
    IF sorted = <<>> THEN <<e>>
    ELSE IF sorted[Len(sorted)].n - e.n > 0
         THEN Append(InsertByN(SubSeq(sorted, 1, Len(sorted) - 1), e), sorted[Len(sorted)])
         ELSE Append(sorted, e)
RECURSIVE SortByN(_)
SortByN(s) ==
    IF s = <<>> THEN <<>>
    ELSE InsertByN(SortByN(SubSeq(s, 1, Len(s) - 1)), s[Len(s)])

RECURSIVE SelectSeqIdx(_, _)
\* the indices i of s, ascending, with keep[i]
SelectSeqIdx(keep, i) ==
    IF i > Len(keep) THEN <<>>
    ELSE (IF keep[i] THEN <<i>> ELSE <<>>) \o SelectSeqIdx(keep, i + 1)

\* for (const key in obj): V8 enumerates the natural-number-like property
\* names first, in ascending numeric order, then the others in insertion order.
ForIn(obj) ==
    LET nat == SelectSeqIdx([i \in 1..Len(obj) |-> LooksLikeNatural(obj[i].key)], 1)
        oth == SelectSeqIdx([i \in 1..Len(obj) |-> ~LooksLikeNatural(obj[i].key)], 1)
        srt == SortByN([j \in 1..Len(nat) |-> [i |-> nat[j], n |-> ParseInt(obj[nat[j]].key)]])
    IN  [j \in 1..Len(srt) |-> obj[srt[j].i].key] \o [j \in 1..Len(oth) |-> obj[oth[j]].key]

-----------------------------------------------------------------------------
(* The native Map of the host: entries in insertion order, keys compared as  *)
(* values (the number 1 is not the string "1").                             *)

NativeNew == [kind |-> "native", data |-> <<>>]
NativeHas(m, key) == IndexOfKey(m.data, key, 1) # 0
NativeGet(m, key) == IF NativeHas(m, key) THEN m.data[IndexOfKey(m.data, key, 1)].value ELSE Undefined
NativeSet(m, key, value) ==
    IF NativeHas(m, key) THEN [m EXCEPT !.data[IndexOfKey(m.data, key, 1)].value = value]
    ELSE [m EXCEPT !.data = Append(m.data, [key |-> key, value |-> value])]
NativeDelete(m, key) ==
    IF NativeHas(m, key) THEN [m EXCEPT !.data = RemoveAt(m.data, IndexOfKey(m.data, key, 1))] ELSE m
NativeClear(m) == [m EXCEPT !.data = <<>>]
NativeSizeProp(m) == Len(m.data)
NativeForEach(m) == m.data

-----------------------------------------------------------------------------
(* class ShimMap: data is a dictionary-mode object *)

ShimNew == [kind |-> "shim", data |-> createDictionaryModeObject]
ShimClear(m) == [m EXCEPT !.data = createDictionaryModeObject]
ShimHas(m, key) == ObjIn(m.data, PropertyKey(key))
ShimDelete(m, key) ==
    IF ShimHas(m, key) THEN [m EXCEPT !.data = ObjDelete(m.data, PropertyKey(key))] ELSE m
ShimGet(m, key) == ObjGet(m.data, PropertyKey(key))
ShimSet(m, key, value) == [m EXCEPT !.data = ObjPut(m.data, PropertyKey(key), value)]
\* the (value, key) pairs handed to the action, in order; the key is a string
ShimForEach(m) ==
    LET keys == ForIn(m.data)
    IN  [i \in 1..Len(keys) |-> [key |-> Str(keys[i]), value |-> ObjGet(m.data, keys[i])]]

-----------------------------------------------------------------------------
(* Method calls on a Map<K, V>, whichever class it is *)

MapHas(m, key) == IF m.kind = "native" THEN NativeHas(m, key) ELSE ShimHas(m, key)
MapGet(m, key) == IF m.kind = "native" THEN NativeGet(m, key) ELSE ShimGet(m, key)
MapSet(m, key, value) == IF m.kind = "native" THEN NativeSet(m, key, value) ELSE ShimSet(m, key, value)
\* delete returns whether the key was there; MapDelete is the map afterwards
MapDeleteResult(m, key) == MapHas(m, key)
MapDelete(m, key) == IF m.kind = "native" THEN NativeDelete(m, key) ELSE ShimDelete(m, key)
MapClear(m) == IF m.kind = "native" THEN NativeClear(m) ELSE ShimClear(m)
MapForEach(m) == IF m.kind = "native" THEN NativeForEach(m) ELSE ShimForEach(m)

Envs == {"es6", "es5native", "shim"}
usingNativeMaps(e) == e # "shim"
usingES6NativeMaps(e) == e = "es6"

\* new MapCtr(), then map.set for each pair
MapCtr(e) == IF usingNativeMaps(e) THEN NativeNew ELSE ShimNew
RECURSIVE SetAll(_, _, _)
SetAll(m, pairs, i) ==
    IF i > Len(pairs) THEN m
    ELSE SetAll(MapSet(m, pairs[i][1], pairs[i][2]), pairs, i + 1)
createMap(e, pairs) == SetAll(MapCtr(e), pairs, 1)

mapSize(e, m) == IF usingNativeMaps(e) THEN NativeSizeProp(m) ELSE Len(MapForEach(m))

-----------------------------------------------------------------------------
(* Iteration.  A callback is a function on the arguments it is called with; *)
(* the result of a query is the record of its result and of how often it     *)
(* invoked the predicate.                                                    *)

\* what the ES6 iterators map.entries(), map.keys() and map.values() yield
NativeEntries(m) == [i \in 1..Len(m.data) |-> <<m.data[i].key, m.data[i].value>>]
NativeKeys(m) == [i \in 1..Len(m.data) |-> m.data[i].key]
NativeValues(m) == [i \in 1..Len(m.data) |-> m.data[i].value]

\* the <<value, key>> arguments that forEach calls its action with
ForEachArgs(m) ==
    LET entries == MapForEach(m)
    IN  {<<entries[i].value, entries[i].key>> : i \in 1..Len(entries)}
Range(seq) == {seq[i] : i \in 1..Len(seq)}

RECURSIVE FirstTrue(_, _)
FirstTrue(hits, i) ==
    IF i > Len(hits) THEN 0
    ELSE IF hits[i] THEN i
    ELSE FirstTrue(hits, i + 1)

\* the loop ends at the first item the predicate is true of
someInIterator(iterator, predicate) ==
    LET first == FirstTrue([i \in 1..Len(iterator) |-> predicate[iterator[i]]], 1)
    IN  [result |-> first # 0,
         invoked |-> IF first = 0 THEN Len(iterator) ELSE first]

\* someInMap whose forEach callback is found = predicate(value, key) || found
someInMap_NoShortCircuit(e, m, predicate) ==
    IF usingES6NativeMaps(e)
    THEN LET entries == NativeEntries(m)
         IN  someInIterator(entries, [pair \in Range(entries) |-> predicate[<<pair[2], pair[1]>>]])
    ELSE LET entries == MapForEach(m)
         IN  [result |-> \E i \in 1..Len(entries) : predicate[<<entries[i].value, entries[i].key>>],
              invoked |-> Len(entries)]

\* without ES6 iterators forEach visits every entry, and found || predicate(..)
\* stops invoking the predicate once found is true
someInMap(e, m, predicate) ==
    IF usingES6NativeMaps(e)
    THEN LET entries == NativeEntries(m)
         IN  someInIterator(entries, [pair \in Range(entries) |-> predicate[<<pair[2], pair[1]>>]])
    ELSE LET entries == MapForEach(m)
             first == FirstTrue([i \in 1..Len(entries) |->
                                   predicate[<<entries[i].value, entries[i].key>>]], 1)
         IN  [result |-> first # 0,
              invoked |-> IF first = 0 THEN Len(entries) ELSE first]

someKeyInMap(e, m, predicate) ==
    IF usingES6NativeMaps(e)
    THEN someInIterator(NativeKeys(m), predicate)
    ELSE someInMap(e, m, [args \in ForEachArgs(m) |-> predicate[args[2]]])

someValueInMap(e, m, predicate) ==
    IF usingES6NativeMaps(e)
    THEN someInIterator(NativeValues(m), predicate)
    ELSE someInMap(e, m, [args \in ForEachArgs(m) |-> predicate[args[1]]])

\* the index of the last entry f has a result for, 0 when there is none
RECURSIVE LastTrue(_, _)
LastTrue(hits, i) ==
    IF i = 0 THEN 0
    ELSE IF hits[i] THEN i
    ELSE LastTrue(hits, i - 1)

\* findInMap whose forEach callback lacks the test result === undefined
findInMap_KeepsLast(e, m, f) ==
    LET entries == MapForEach(m)
        args == [i \in 1..Len(entries) |-> <<entries[i].value, entries[i].key>>]
        first == FirstTrue([i \in 1..Len(entries) |-> f[args[i]] # Undefined], 1)
        last == LastTrue([i \in 1..Len(entries) |-> f[args[i]] # Undefined], Len(entries))
    IN  IF usingES6NativeMaps(e)
        THEN [result |-> IF first = 0 THEN Undefined ELSE f[args[first]],
              invoked |-> IF first = 0 THEN Len(entries) ELSE first,
              visited |-> IF first = 0 THEN Len(entries) ELSE first]
        ELSE [result |-> IF last = 0 THEN Undefined ELSE f[args[last]],
              invoked |-> Len(entries),
              visited |-> Len(entries)]

\* result: what findInMap returns; invoked: how often it called f; visited: how
\* many entries the iteration handed out (iter.next() results that were not
\* done, or calls of the forEach action)
findInMap(e, m, f) ==
    IF usingES6NativeMaps(e)
    THEN LET entries == NativeEntries(m)
             first == FirstTrue([i \in 1..Len(entries) |->
                                   f[<<entries[i][2], entries[i][1]>>] # Undefined], 1)
         IN  [result |-> IF first = 0 THEN Undefined
                         ELSE f[<<entries[first][2], entries[first][1]>>],
              invoked |-> IF first = 0 THEN Len(entries) ELSE first,
              visited |-> IF first = 0 THEN Len(entries) ELSE first]
    ELSE LET entries == MapForEach(m)
             first == FirstTrue([i \in 1..Len(entries) |->
                                   f[<<entries[i].value, entries[i].key>>] # Undefined], 1)
         IN  [result |-> IF first = 0 THEN Undefined
                         ELSE f[<<entries[first].value, entries[first].key>>],
              invoked |-> IF first = 0 THEN Len(entries) ELSE first,
              visited |-> Len(entries)]

-----------------------------------------------------------------------------
(* Sets of strings: the native Set of the host, its values in insertion      *)
(* order, and class ShimStringSet, whose data is a dictionary-mode object    *)
(* holding true at every value.                                              *)

RECURSIVE Without(_, _)
Without(seq, value) ==
    IF seq = <<>> THEN <<>>
    ELSE (IF seq[1] = value THEN <<>> ELSE <<seq[1]>>) \o Without(Tail(seq), value)

NativeSetNew == [kind |-> "native", data |-> <<>>]
NativeSetHas(s, value) == value \in Range(s.data)
NativeSetAdd(s, value) == IF NativeSetHas(s, value) THEN s ELSE [s EXCEPT !.data = Append(s.data, value)]
NativeSetDelete(s, value) == [s EXCEPT !.data = Without(s.data, value)]
NativeSetClear(s) == [s EXCEPT !.data = <<>>]
NativeSetSizeProp(s) == Len(s.data)
NativeSetForEach(s) == s.data

ShimSetNew == [kind |-> "shim", data |-> createDictionaryModeObject]
ShimSetAdd(s, value) == [s EXCEPT !.data = ObjPut(s.data, value, TRUE)]
ShimSetClear(s) == [s EXCEPT !.data = createDictionaryModeObject]
ShimSetHas(s, value) == ObjIn(s.data, value)
ShimSetDeleteResult(s, value) == ShimSetHas(s, value)
ShimSetDelete(s, value) ==
    IF ShimSetHas(s, value) THEN [s EXCEPT !.data = ObjDelete(s.data, value)] ELSE s
\* the values handed to the action, in order
ShimSetForEach(s) == ForIn(s.data)
\* the for-in loop returns false at the first property name
ShimSetIsEmpty(s) == Len(ForIn(s.data)) = 0

\* method calls on a Set<string>, whichever class it is
SetHas(s, value) == IF s.kind = "native" THEN NativeSetHas(s, value) ELSE ShimSetHas(s, value)
SetAdd(s, value) == IF s.kind = "native" THEN NativeSetAdd(s, value) ELSE ShimSetAdd(s, value)
SetDeleteResult(s, value) ==
    IF s.kind = "native" THEN NativeSetHas(s, value) ELSE ShimSetDeleteResult(s, value)
SetDelete(s, value) == IF s.kind = "native" THEN NativeSetDelete(s, value) ELSE ShimSetDelete(s, value)
SetClear(s) == IF s.kind = "native" THEN NativeSetClear(s) ELSE ShimSetClear(s)
SetForEach(s) == IF s.kind = "native" THEN NativeSetForEach(s) ELSE ShimSetForEach(s)

\* a runtime with a native Map has a native Set
usingNativeSets(e) == e # "shim"
SetCtr(e) == IF usingNativeSets(e) THEN NativeSetNew ELSE ShimSetNew
createSet(e) == SetCtr(e)

setIsEmpty(e, s) == IF usingNativeSets(e) THEN NativeSetSizeProp(s) = 0 ELSE ShimSetIsEmpty(s)

\* mapIsEmpty that looks for a value other than undefined
mapIsEmpty_TestsValues(e, m) ==
    ~someValueInMap(e, m, [value \in {args[1] : args \in ForEachArgs(m)} |->
                              value # Undefined]).result

\* !someKeyInMap(map, () => true)
mapIsEmpty(e, m) ==
    ~someKeyInMap(e, m, [key \in {args[2] : args \in ForEachArgs(m)} |-> TRUE]).result

-----------------------------------------------------------------------------
(* Map <-> MapLike *)

RECURSIVE PutAll(_, _, _)
PutAll(obj, entries, i) ==
    IF i > Len(entries) THEN obj
    ELSE PutAll(ObjPut(obj, PropertyKey(entries[i].key), entries[i].value), entries, i + 1)

mapLikeOfMap(m) == PutAll(createDictionaryModeObject, MapForEach(m), 1)

\* hasOwnProperty.call(map, key) on an object without prototype
hasProperty(obj, key) == ObjIn(obj, key)

RECURSIVE SetOwn(_, _, _, _)
SetOwn(m, object, keys, i) ==
    IF i > Len(keys) THEN m
    ELSE SetOwn(IF hasProperty(object, keys[i])
                THEN MapSet(m, Str(keys[i]), ObjGet(object, keys[i]))
                ELSE m,
                object, keys, i + 1)

RECURSIVE SetDefined(_, _, _, _)
SetDefined(m, object, keys, i) ==
    IF i > Len(keys) THEN m
    ELSE SetDefined(IF ObjGet(object, keys[i]) # Undefined
                    THEN MapSet(m, Str(keys[i]), ObjGet(object, keys[i]))
                    ELSE m,
                    object, keys, i + 1)

\* mapOfMapLike that takes a property holding undefined for a missing one
mapOfMapLike_SkipsUndefined(e, object) == SetDefined(createMap(e, <<>>), object, ForIn(object), 1)

mapOfMapLike(e, object) == SetOwn(createMap(e, <<>>), object, ForIn(object), 1)

-----------------------------------------------------------------------------
(* Initial state *)

InitLockstep ==
    /\ nativeMap = createMap("es6", <<>>)
    /\ shimMap = createMap("shim", <<>>)
    /\ lastSet = [k \in Keys |-> Absent]

InitUtil ==
    /\ map = createMap(env, <<>>)
    /\ other = createMap(env, <<>>)
    /\ sortInput = <<>>
    /\ inputArray = <<>>
    /\ sets = [name \in SetNames |-> createSet(env)]
    /\ objects = [name \in ObjectNames |-> <<>>]

Init ==
    /\ env = "es6"
    /\ InitLockstep
    /\ InitUtil
    /\ ret = [op |-> "new"]

\* a set that adds an entry needs room for it
HasRoom(m, key) == MapHas(m, key) \/ Len(m.data) < MaxEntries

-----------------------------------------------------------------------------
(* The same call made on a native-backed map and on a ShimMap *)

lockVars == <<nativeMap, shimMap, lastSet>>
utilVars == <<env, map, other, sortInput, inputArray, sets, objects>>
\* what a call on `map` leaves alone
exceptMap == <<env, other, sortInput, inputArray, sets, objects, lockVars>>
\* what a call on `map` and `other` leaves alone
exceptMaps == <<env, sortInput, inputArray, sets, objects, lockVars>>

LockSet(key, value) ==
    /\ HasRoom(nativeMap, key)
    /\ nativeMap' = MapSet(nativeMap, key, value)
    /\ shimMap' = MapSet(shimMap, key, value)
    /\ lastSet' = [lastSet EXCEPT ![key] = value]
    /\ ret' = [op |-> "set", key |-> key, value |-> value]
    /\ UNCHANGED utilVars

LockGet(key) ==
    /\ ret' = [op |-> "get", key |-> key,
               native |-> MapGet(nativeMap, key), shim |-> MapGet(shimMap, key)]
    /\ UNCHANGED <<lockVars, utilVars>>

LockHas(key) ==
    /\ ret' = [op |-> "has", key |-> key,
               native |-> MapHas(nativeMap, key), shim |-> MapHas(shimMap, key)]
    /\ UNCHANGED <<lockVars, utilVars>>

LockDelete(key) ==
    /\ nativeMap' = MapDelete(nativeMap, key)
    /\ shimMap' = MapDelete(shimMap, key)
    /\ lastSet' = [lastSet EXCEPT ![key] = Absent]
    /\ ret' = [op |-> "delete", key |-> key,
               native |-> MapDeleteResult(nativeMap, key), shim |-> MapDeleteResult(shimMap, key)]
    /\ UNCHANGED utilVars

LockClear ==
    /\ nativeMap' = MapClear(nativeMap)
    /\ shimMap' = MapClear(shimMap)
    /\ lastSet' = [k \in Keys |-> Absent]
    /\ ret' = [op |-> "clear"]
    /\ UNCHANGED utilVars

LockSize ==
    /\ ret' = [op |-> "size",
               native |-> mapSize("es6", nativeMap), shim |-> mapSize("shim", shimMap)]
    /\ UNCHANGED <<lockVars, utilVars>>

NextLockstep ==
    \/ \E key \in Keys, value \in Values : LockSet(key, value)
    \/ \E key \in Keys : LockGet(key)
    \/ \E key \in Keys : LockHas(key)
    \/ \E key \in Keys : LockDelete(key)
    \/ LockClear
    \/ LockSize

\* Both kinds of map under every sequence of set/get/has/delete/clear/size.
Spec == Init /\ [][NextLockstep]_vars

-----------------------------------------------------------------------------
(* Claims about get, set, delete and size *)

\* what the history says get(key) is to return
Expected(key) == IF lastSet[key] = Absent THEN Undefined ELSE lastSet[key]
KeysSet == {k \in Keys : lastSet[k] # Absent}

\* C1: get(k) returns the value of the latest set(k, v) not followed by
\* delete(k) or clear, and undefined when there is none; on both kinds of map.
C1_GetReturnsLatestSet ==
    ret.op = "get" => ret.native = Expected(ret.key) /\ ret.shim = Expected(ret.key)

\* C1 holds of the native-backed map alone.
C1_NativeGetReturnsLatestSet ==
    ret.op = "get" => ret.native = Expected(ret.key)

\* C2: mapSize is the number of distinct keys that are set; on both kinds of map.
C2_SizeIsNumberOfKeys ==
    ret.op = "size" => ret.native = Cardinality(KeysSet) /\ ret.shim = Cardinality(KeysSet)

\* C2 holds of the native-backed map alone.
C2_NativeSizeIsNumberOfKeys ==
    ret.op = "size" => ret.native = Cardinality(KeysSet)

\* C3: get, has, delete and mapSize give the same result on a native-backed
\* map and on a ShimMap after the same sequence of calls.
C3_SameResults ==
    ret.op \in {"get", "has", "delete", "size"} => ret.native = ret.shim

-----------------------------------------------------------------------------
(* Map utilities.  A function that changes the map is modelled by the record *)
(* of the map afterwards, its result, and how often it invoked its callback; *)
(* the callback getValue is modelled by the value it returns.  In ret,       *)
(* computed is what the callback returned, Absent when it was not invoked.   *)

setAndReturn(m, key, value) == [map |-> MapSet(m, key, value), result |-> value]

\* getOrUpdate testing presence with has instead of comparing with undefined
getOrUpdate_TestsHas(m, key, getValue) ==
    IF MapHas(m, key)
    THEN [map |-> m, result |-> MapGet(m, key), invoked |-> 0]
    ELSE [map |-> MapSet(m, key, getValue), result |-> getValue, invoked |-> 1]

getOrUpdate(m, key, getValue) ==
    LET value == MapGet(m, key)
    IN  IF value # Undefined
        THEN [map |-> m, result |-> value, invoked |-> 0]
        ELSE [map |-> setAndReturn(m, key, getValue).map,
              result |-> setAndReturn(m, key, getValue).result, invoked |-> 1]

\* getOrUpdateAndAllowUndefined comparing the value with undefined instead of using has
getOrUpdateAndAllowUndefined_TestsValue(m, key, getValue) ==
    IF MapGet(m, key) # Undefined
    THEN [map |-> m, result |-> MapGet(m, key), invoked |-> 0]
    ELSE [map |-> MapSet(m, key, getValue), result |-> getValue, invoked |-> 1]

getOrUpdateAndAllowUndefined(m, key, getValue) ==
    IF MapHas(m, key)
    THEN [map |-> m, result |-> MapGet(m, key), invoked |-> 0]
    ELSE [map |-> setAndReturn(m, key, getValue).map,
          result |-> setAndReturn(m, key, getValue).result, invoked |-> 1]

\* setIfNotSet testing the value with undefined instead of using has
setIfNotSet_TestsValue(m, key, value) ==
    LET shouldSet == MapGet(m, key) = Undefined
    IN  [map |-> IF shouldSet THEN MapSet(m, key, value) ELSE m, result |-> shouldSet]

setIfNotSet(m, key, value) ==
    LET shouldSet == ~MapHas(m, key)
    IN  [map |-> IF shouldSet THEN MapSet(m, key, value) ELSE m, result |-> shouldSet]

tryDelete(m, key) ==
    LET current == MapGet(m, key)
    IN  IF current # Undefined
        THEN [map |-> MapDelete(m, key), result |-> current]
        ELSE [map |-> m, result |-> Undefined]

-----------------------------------------------------------------------------
(* Calls on the map `map` of a runtime env *)

UtilSet(key, value) ==
    /\ HasRoom(map, key)
    /\ map' = MapSet(map, key, value)
    /\ ret' = [op |-> "set"]
    /\ UNCHANGED exceptMap

UtilDelete(key) ==
    /\ map' = MapDelete(map, key)
    /\ ret' = [op |-> "delete"]
    /\ UNCHANGED exceptMap

GetOrUpdate(key, getValue) ==
    LET r == getOrUpdate(map, key, getValue)
    IN  /\ HasRoom(map, key)
        /\ map' = r.map
        /\ ret' = [op |-> "getOrUpdate", key |-> key, had |-> MapHas(map, key),
                   result |-> r.result, invoked |-> r.invoked,
                   computed |-> IF r.invoked = 1 THEN getValue ELSE Absent]
        /\ UNCHANGED exceptMap

GetOrUpdateAndAllowUndefined(key, getValue) ==
    LET r == getOrUpdateAndAllowUndefined(map, key, getValue)
    IN  /\ HasRoom(map, key)
        /\ map' = r.map
        /\ ret' = [op |-> "getOrUpdateAndAllowUndefined", key |-> key,
                   result |-> r.result, invoked |-> r.invoked,
                   computed |-> IF r.invoked = 1 THEN getValue ELSE Absent]
        /\ UNCHANGED exceptMap

InitUtilSpec ==
    /\ env \in Envs
    /\ InitLockstep
    /\ InitUtil
    /\ ret = [op |-> "new"]

NextUtil ==
    \/ \E key \in Keys, value \in Values : UtilSet(key, value)
    \/ \E key \in Keys : UtilDelete(key)
    \/ \E key \in Keys, getValue \in Values : GetOrUpdate(key, getValue)
    \/ \E key \in Keys, getValue \in Values : GetOrUpdateAndAllowUndefined(key, getValue)

\* The utilities on a map of each kind of runtime.
SpecUtil == InitUtilSpec /\ [][NextUtil]_vars

SetIfNotSet(key, value) ==
    LET r == setIfNotSet(map, key, value)
    IN  /\ HasRoom(map, key)
        /\ map' = r.map
        /\ ret' = [op |-> "setIfNotSet", key |-> key, value |-> value, result |-> r.result]
        /\ UNCHANGED exceptMap

TryDelete(key) ==
    LET r == tryDelete(map, key)
    IN  /\ map' = r.map
        /\ ret' = [op |-> "tryDelete", key |-> key, result |-> r.result]
        /\ UNCHANGED exceptMap

NextEdit ==
    \/ \E key \in Keys, value \in Values : UtilSet(key, value)
    \/ \E key \in Keys : UtilDelete(key)
    \/ \E key \in Keys, value \in Values : SetIfNotSet(key, value)
    \/ \E key \in Keys : TryDelete(key)

\* setIfNotSet and tryDelete on a map of each kind of runtime.
SpecEdit == InitUtilSpec /\ [][NextEdit]_vars

-----------------------------------------------------------------------------
(* Multi-maps: a Map<K, V[]>, here the map `map` of a runtime env *)

\* if (values): undefined is falsy, an array (also an empty one) is truthy
Truthy(x) == x # Undefined

RECURSIVE IndexOfItem(_, _, _)
IndexOfItem(array, item, i) ==
    IF i > Len(array) THEN 0
    ELSE IF array[i] = item THEN i
    ELSE IndexOfItem(array, item, i + 1)

\* unorderedRemoveItem(array, item): the first element equal to item is
\* overwritten by the last element, and the last element is popped.
unorderedRemoveItem(array, item) ==
    LET index == IndexOfItem(array, item, 1)
    IN  IF index = 0 THEN array
        ELSE SubSeq([array EXCEPT ![index] = array[Len(array)]], 1, Len(array) - 1)

\* values.push(value) changes the array that the map holds
multiMapAdd(m, key, value) ==
    LET values == MapGet(m, key)
    IN  IF Truthy(values)
        THEN [map |-> MapSet(m, key, Arr(Append(values.v, value))),
              result |-> Arr(Append(values.v, value))]
        ELSE setAndReturn(m, key, Arr(<<value>>))

\* multiMapRemove that leaves the emptied array in the map
multiMapRemove_NoDelete(m, key, value) ==
    LET values == MapGet(m, key)
    IN  IF Truthy(values)
        THEN MapSet(m, key, Arr(unorderedRemoveItem(values.v, value)))
        ELSE m

multiMapRemove(m, key, value) ==
    LET values == MapGet(m, key)
    IN  IF Truthy(values)
        THEN LET removed == unorderedRemoveItem(values.v, value)
             IN  IF Len(removed) = 0
                 THEN MapDelete(MapSet(m, key, Arr(removed)), key)
                 ELSE MapSet(m, key, Arr(removed))
        ELSE m

RECURSIVE TotalItems(_, _)
TotalItems(entries, i) ==
    IF i > Len(entries) THEN 0 ELSE Len(entries[i].value.v) + TotalItems(entries, i + 1)

MultiMapAdd(key, value) ==
    LET r == multiMapAdd(map, key, value)
    IN  /\ HasRoom(map, key)
        /\ TotalItems(map.data, 1) < MaxItems
        /\ map' = r.map
        /\ ret' = [op |-> "multiMapAdd", key |-> key, value |-> value,
                   had |-> MapHas(map, key), result |-> r.result]
        /\ UNCHANGED exceptMap

MultiMapRemove(key, value) ==
    /\ map' = multiMapRemove(map, key, value)
    /\ ret' = [op |-> "multiMapRemove", key |-> key, value |-> value,
               had |-> MapHas(map, key)]
    /\ UNCHANGED exceptMap

NextMulti ==
    \/ \E key \in Keys, value \in Values : MultiMapAdd(key, value)
    \/ \E key \in Keys, value \in Values : MultiMapRemove(key, value)

\* multiMapAdd and multiMapRemove on an initially empty map of each kind of runtime.
SpecMulti == InitUtilSpec /\ [][NextMulti]_vars

-----------------------------------------------------------------------------
(* arrayToMap.  The elements of the array are objects [key, v]; makeKey gives *)
(* the key of an element, and makeValue is omitted (undefined) or a function. *)

Function(f) == [t |-> "function", f |-> f]

Items == {[key |-> str, v |-> n] : str \in StringKeys, n \in 1..MaxVal}

\* the makeKey callback: the key of an element
ItemKey == [value \in Items |-> value.key]
\* the makeValue arguments: omitted, or the number the element holds
MakeValues == {Undefined, Function([value \in Items |-> Num(value.v)])}

\* makeValue ? makeValue(value) : value
MadeValue(makeValue, value) == IF Truthy(makeValue) THEN makeValue.f[value] ELSE value

RECURSIVE SetEachFirstWins(_, _, _, _, _)
SetEachFirstWins(result, array, makeKey, makeValue, i) ==
    IF i > Len(array) THEN result
    ELSE SetEachFirstWins(IF MapHas(result, Str(makeKey[array[i]])) THEN result
                          ELSE MapSet(result, Str(makeKey[array[i]]), MadeValue(makeValue, array[i])),
                          array, makeKey, makeValue, i + 1)

\* for (const value of array) result.set(makeKey(value), ..)
RECURSIVE SetEach(_, _, _, _, _)
SetEach(result, array, makeKey, makeValue, i) ==
    IF i > Len(array) THEN result
    ELSE SetEach(MapSet(result, Str(makeKey[array[i]]), MadeValue(makeValue, array[i])),
                 array, makeKey, makeValue, i + 1)

\* arrayToMap that keeps the first element of a key
arrayToMap_FirstWins(e, array, makeKey, makeValue) ==
    SetEachFirstWins(createMap(e, <<>>), array, makeKey, makeValue, 1)

arrayToMap(e, array, makeKey, makeValue) ==
    SetEach(createMap(e, <<>>), array, makeKey, makeValue, 1)

\* array.push(value)
ArrayPush(value) ==
    /\ Len(inputArray) < MaxArr
    /\ inputArray' = Append(inputArray, value)
    /\ ret' = [op |-> "push"]
    /\ UNCHANGED <<env, map, other, sortInput, sets, objects, lockVars>>

\* map = arrayToMap(inputArray, makeKey, makeValue)
ArrayToMap(makeValue) ==
    /\ map' = arrayToMap(env, inputArray, ItemKey, makeValue)
    /\ ret' = [op |-> "arrayToMap", makeValue |-> makeValue]
    /\ UNCHANGED exceptMap

NextArray ==
    \/ \E value \in Items : ArrayPush(value)
    \/ \E makeValue \in MakeValues : ArrayToMap(makeValue)

\* arrayToMap of every array of at most MaxArr elements, in each kind of runtime.
SpecArray == InitUtilSpec /\ [][NextArray]_vars

-----------------------------------------------------------------------------
(* mapsAreEqual.  An argument is null or a reference to a map; two references *)
(* are === when they refer to the same map.                                   *)

Null == [t |-> "null"]
Ref(id, obj) == [t |-> "object", id |-> id, obj |-> obj]
StrictEquals(l, r) == IF l.t = "object" /\ r.t = "object" THEN l.id = r.id ELSE l = r
Falsy(x) == x \in {Null, Undefined}

\* the valuesAreEqual arguments: omitted, or one of two comparers
Comparers == {"omitted", "sameType", "leftUndefinedOrSame"}
SymmetricComparers == {"omitted", "sameType"}
Call(valuesAreEqual, l, r) ==
    IF valuesAreEqual = "sameType" THEN l.t = r.t
    ELSE l = Undefined \/ l = r

\* the callback of someInMap(left, ..): has the entry of left no match in right?
HasNoMatch(left, right, valuesAreEqual) ==
    [args \in ForEachArgs(left) |->
        LET leftValue == args[1]
            leftKey == args[2]
        IN  IF ~MapHas(right, leftKey) THEN TRUE
            ELSE ~(IF valuesAreEqual # "omitted"
                   THEN Call(valuesAreEqual, leftValue, MapGet(right, leftKey))
                   ELSE StrictEquals(leftValue, MapGet(right, leftKey)))]

\* the callback of someKeyInMap(right, ..): does left lack the key of right?
NotInLeft(left, right) == [rightKey \in Keys |-> ~MapHas(left, rightKey)]

\* mapsAreEqual without the test that every key of right is in left
mapsAreEqual_LeftKeysOnly(e, left, right, valuesAreEqual) ==
    IF StrictEquals(left, right) THEN TRUE
    ELSE IF Falsy(left) \/ Falsy(right) THEN FALSE
    ELSE ~someInMap(e, left.obj, HasNoMatch(left.obj, right.obj, valuesAreEqual)).result

\* mapsAreEqual without the test right.has(leftKey)
mapsAreEqual_NoHasTest(e, left, right, valuesAreEqual) ==
    IF StrictEquals(left, right) THEN TRUE
    ELSE IF Falsy(left) \/ Falsy(right) THEN FALSE
    ELSE LET someInLeftHasNoMatch ==
                 someInMap(e, left.obj,
                     [args \in ForEachArgs(left.obj) |->
                        ~(IF valuesAreEqual # "omitted"
                          THEN Call(valuesAreEqual, args[1], MapGet(right.obj, args[2]))
                          ELSE StrictEquals(args[1], MapGet(right.obj, args[2])))]).result
         IN  IF someInLeftHasNoMatch THEN FALSE
             ELSE ~someKeyInMap(e, right.obj, NotInLeft(left.obj, right.obj)).result

mapsAreEqual(e, left, right, valuesAreEqual) ==
    IF StrictEquals(left, right) THEN TRUE
    ELSE IF Falsy(left) \/ Falsy(right) THEN FALSE
    ELSE LET someInLeftHasNoMatch ==
                 someInMap(e, left.obj, HasNoMatch(left.obj, right.obj, valuesAreEqual)).result
         IN  IF someInLeftHasNoMatch THEN FALSE
             ELSE ~someKeyInMap(e, right.obj, NotInLeft(left.obj, right.obj)).result

\* the arguments of a call: the map `map`, and `map`, `other` or null
Args == {Ref("map", map), Ref("other", other), Null}

OtherSet(key, value) ==
    /\ HasRoom(other, key)
    /\ other' = MapSet(other, key, value)
    /\ ret' = [op |-> "set"]
    /\ UNCHANGED <<map, exceptMaps>>

OtherDelete(key) ==
    /\ other' = MapDelete(other, key)
    /\ ret' = [op |-> "delete"]
    /\ UNCHANGED <<map, exceptMaps>>

\* mapsAreEqual(left, right, valuesAreEqual) and mapsAreEqual(right, left, valuesAreEqual)
MapsAreEqual(left, right, valuesAreEqual) ==
    /\ ret' = [op |-> "mapsAreEqual", left |-> left, right |-> right,
               valuesAreEqual |-> valuesAreEqual,
               result |-> mapsAreEqual(env, left, right, valuesAreEqual),
               reverse |-> mapsAreEqual(env, right, left, valuesAreEqual)]
    /\ UNCHANGED <<map, other, exceptMaps>>

\* other = mapOfMapLike(mapLikeOfMap(map)), then mapsAreEqual(other, map)
RoundTrip ==
    /\ other' = mapOfMapLike(env, mapLikeOfMap(map))
    /\ ret' = [op |-> "roundTrip",
               equal |-> mapsAreEqual(env, Ref("other", other'), Ref("map", map), "omitted")]
    /\ UNCHANGED <<map, exceptMaps>>

\* mapsAreEqual, mapLikeOfMap and mapOfMapLike take a Map<string, V>
StringKeyed == {Str(str) : str \in StringKeys}

NextEq ==
    \/ \E key \in StringKeyed, value \in Values : UtilSet(key, value)
    \/ \E key \in StringKeyed : UtilDelete(key)
    \/ \E key \in StringKeyed, value \in Values : OtherSet(key, value)
    \/ \E key \in StringKeyed : OtherDelete(key)
    \/ \E right \in Args, valuesAreEqual \in Comparers :
          MapsAreEqual(Ref("map", map), right, valuesAreEqual)
    \/ RoundTrip

\* Two maps with string keys of each kind of runtime, compared and converted.
SpecEq == InitUtilSpec /\ [][NextEq]_vars

-----------------------------------------------------------------------------
(* Queries on the map `map`, which has string keys.  The callbacks are all    *)
(* the functions on the entries (keys, values) of the map.                    *)

\* what f returns for an entry it has a result for
Found(args) == [t |-> "found", value |-> args[1], key |-> args[2]]

KeysIn(m) == {args[2] : args \in ForEachArgs(m)}
ValuesIn(m) == {args[1] : args \in ForEachArgs(m)}
Finders(m) == {[args \in ForEachArgs(m) |-> IF args \in S THEN Found(args) ELSE Undefined] :
                  S \in SUBSET ForEachArgs(m)}
EntryPredicates(m) == [ForEachArgs(m) -> BOOLEAN]
KeyPredicates(m) == [KeysIn(m) -> BOOLEAN]
ValuePredicates(m) == [ValuesIn(m) -> BOOLEAN]

FindInMap(f) ==
    LET r == findInMap(env, map, f)
    IN  /\ ret' = [op |-> "findInMap", f |-> f, result |-> r.result,
                   invoked |-> r.invoked, visited |-> r.visited]
        /\ UNCHANGED <<map, exceptMap>>

SomeInMap(predicate) ==
    LET r == someInMap(env, map, predicate)
    IN  /\ ret' = [op |-> "someInMap", predicate |-> predicate,
                   result |-> r.result, invoked |-> r.invoked]
        /\ UNCHANGED <<map, exceptMap>>

SomeKeyInMap(predicate) ==
    LET r == someKeyInMap(env, map, predicate)
    IN  /\ ret' = [op |-> "someKeyInMap", predicate |-> predicate,
                   result |-> r.result, invoked |-> r.invoked]
        /\ UNCHANGED <<map, exceptMap>>

SomeValueInMap(predicate) ==
    LET r == someValueInMap(env, map, predicate)
    IN  /\ ret' = [op |-> "someValueInMap", predicate |-> predicate,
                   result |-> r.result, invoked |-> r.invoked]
        /\ UNCHANGED <<map, exceptMap>>

NextFind ==
    \/ \E key \in StringKeyed, value \in Values : UtilSet(key, value)
    \/ \E key \in StringKeyed : UtilDelete(key)
    \/ \E f \in Finders(map) : FindInMap(f)
    \/ \E predicate \in EntryPredicates(map) : SomeInMap(predicate)
    \/ \E predicate \in KeyPredicates(map) : SomeKeyInMap(predicate)
    \/ \E predicate \in ValuePredicates(map) : SomeValueInMap(predicate)

\* Every query on every map with string keys, in each kind of runtime.
SpecFind == InitUtilSpec /\ [][NextFind]_vars

-----------------------------------------------------------------------------
(* Calls on the sets, and emptiness of the map `map` *)

exceptSets == <<env, map, other, sortInput, inputArray, objects, lockVars>>

SetsAdd(name, value) ==
    /\ sets' = [sets EXCEPT ![name] = SetAdd(sets[name], value)]
    /\ ret' = [op |-> "add"]
    /\ UNCHANGED exceptSets

SetsDelete(name, value) ==
    /\ sets' = [sets EXCEPT ![name] = SetDelete(sets[name], value)]
    /\ ret' = [op |-> "setDelete", name |-> name, value |-> value,
               result |-> SetDeleteResult(sets[name], value)]
    /\ UNCHANGED exceptSets

SetsClear(name) ==
    /\ sets' = [sets EXCEPT ![name] = SetClear(sets[name])]
    /\ ret' = [op |-> "clear"]
    /\ UNCHANGED exceptSets

SetIsEmpty(name) ==
    /\ ret' = [op |-> "setIsEmpty", name |-> name, result |-> setIsEmpty(env, sets[name])]
    /\ UNCHANGED <<sets, exceptSets>>

UtilClear ==
    /\ map' = MapClear(map)
    /\ ret' = [op |-> "clear"]
    /\ UNCHANGED exceptMap

MapIsEmpty ==
    /\ ret' = [op |-> "mapIsEmpty", result |-> mapIsEmpty(env, map)]
    /\ UNCHANGED <<map, exceptMap>>

NextEmpty ==
    \/ \E value \in SetValues : SetsAdd("x", value)
    \/ \E value \in SetValues : SetsDelete("x", value)
    \/ SetsClear("x")
    \/ SetIsEmpty("x")
    \/ \E key \in Keys, value \in {Undefined, Num(1)} : UtilSet(key, value)
    \/ \E key \in Keys : UtilDelete(key)
    \/ UtilClear
    \/ MapIsEmpty

\* add, delete, clear and setIsEmpty on a set, and set, delete, clear and
\* mapIsEmpty on a map, of each kind of runtime.
SpecEmpty == InitUtilSpec /\ [][NextEmpty]_vars

\* map.delete(key), with its result
MapDeleteCall(key) ==
    /\ map' = MapDelete(map, key)
    /\ ret' = [op |-> "mapDelete", key |-> key, result |-> MapDeleteResult(map, key)]
    /\ UNCHANGED exceptMap

NextDelete ==
    \/ \E key \in Keys, value \in {Undefined, Num(1)} : UtilSet(key, value)
    \/ \E key \in Keys : MapDeleteCall(key)
    \/ \E value \in SetValues : SetsAdd("x", value)
    \/ \E value \in SetValues : SetsDelete("x", value)

\* set and delete on a map, add and delete on a set, of each kind of runtime.
SpecDelete == InitUtilSpec /\ [][NextDelete]_vars

-----------------------------------------------------------------------------
(* setAggregate.  The elements of the array are objects [name]; getSet gives  *)
(* the set of an element, a reference to one of the sets.  A function that     *)
(* is handed sets is modelled by the record of the sets after the call.        *)

RECURSIVE AddEach(_, _, _)
AddEach(target, vals, i) ==
    IF i > Len(vals) THEN target
    ELSE AddEach(SetAdd(target, vals[i]), vals, i + 1)

\* copySetValuesFromTo that runs target.forEach(value => source.add(value))
copySetValuesFromTo_Swapped(source, target) ==
    [source |-> AddEach(source, SetForEach(target), 1), target |-> target]

\* source.forEach(value => target.add(value))
copySetValuesFromTo(source, target) ==
    [source |-> source, target |-> AddEach(target, SetForEach(source), 1)]

RECURSIVE AggregateFrom(_, _, _, _, _)
AggregateFrom(result, heap, vals, getSet, i) ==
    IF i > Len(vals) THEN [result |-> result, heap |-> heap]
    ELSE LET copied == copySetValuesFromTo(heap[getSet[vals[i]]], result)
         IN  AggregateFrom(copied.target, [heap EXCEPT ![getSet[vals[i]]] = copied.source],
                           vals, getSet, i + 1)

setAggregate(e, heap, vals, getSet) == AggregateFrom(createSet(e), heap, vals, getSet, 1)

Owners == {[name |-> name] : name \in SetNames}
OwnerArrays == UNION {[1..n -> Owners] : n \in 0..MaxArr}
\* the getSet callback: the set of an element
SetOf == [value \in Owners |-> value.name]

SetAggregate(vals) ==
    LET r == setAggregate(env, sets, vals, SetOf)
    IN  /\ sets' = r.heap
        /\ ret' = [op |-> "setAggregate", array |-> vals, result |-> r.result]
        /\ UNCHANGED exceptSets

NextSet ==
    \/ \E name \in SetNames, value \in SetValues : SetsAdd(name, value)
    \/ \E name \in SetNames : SetsClear(name)
    \/ \E vals \in OwnerArrays : SetAggregate(vals)

\* setAggregate of every array of at most MaxArr elements over two sets, in
\* each kind of runtime.
SpecSet == InitUtilSpec /\ [][NextSet]_vars

-----------------------------------------------------------------------------
(* equalOwnProperties.  A map-like is an object literal: its own properties   *)
(* in insertion order, and no enumerable inherited property.                  *)

Bool(b) == [t |-> "boolean", v |-> b]

\* the first loop: has an own property of left no equal in right?
LeftHasNoMatch(left, right, equalityComparer) ==
    LET keys == ForIn(left)
    IN  \E i \in 1..Len(keys) :
           /\ hasProperty(left, keys[i])
           /\ \/ StrictEquals(Bool(~hasProperty(right, keys[i])), Undefined)
              \/ IF equalityComparer # "omitted"
                 THEN ~Call(equalityComparer, ObjGet(left, keys[i]), ObjGet(right, keys[i]))
                 ELSE ~StrictEquals(ObjGet(left, keys[i]), ObjGet(right, keys[i]))

\* the second loop: is an own property of right missing in left?
RightHasExtra(left, right) ==
    LET keys == ForIn(right)
    IN  \E i \in 1..Len(keys) : hasProperty(right, keys[i]) /\ ~hasProperty(left, keys[i])

equalOwnProperties(left, right, equalityComparer) ==
    IF StrictEquals(left, right) THEN TRUE
    ELSE IF Falsy(left) \/ Falsy(right) THEN FALSE
    ELSE IF LeftHasNoMatch(left.obj, right.obj, equalityComparer) THEN FALSE
    ELSE ~RightHasExtra(left.obj, right.obj)

exceptObjects == <<env, map, other, sortInput, inputArray, sets, lockVars>>

\* objects[name][key] = value
PutProperty(name, key, value) ==
    /\ ObjIn(objects[name], key) \/ Len(objects[name]) < MaxEntries
    /\ objects' = [objects EXCEPT ![name] = ObjPut(objects[name], key, value)]
    /\ ret' = [op |-> "put"]
    /\ UNCHANGED exceptObjects

\* delete objects[name][key]
DeleteProperty(name, key) ==
    /\ objects' = [objects EXCEPT ![name] = ObjDelete(objects[name], key)]
    /\ ret' = [op |-> "delete"]
    /\ UNCHANGED exceptObjects

\* the arguments of a call: one of the two map-likes, or null
ObjectArgs == {Ref(name, objects[name]) : name \in ObjectNames} \cup {Null}

\* equalOwnProperties(left, right, equalityComparer) and
\* equalOwnProperties(right, left, equalityComparer)
EqualOwnProperties(left, right, equalityComparer) ==
    /\ ret' = [op |-> "equalOwnProperties", left |-> left, right |-> right,
               equalityComparer |-> equalityComparer,
               result |-> equalOwnProperties(left, right, equalityComparer),
               reverse |-> equalOwnProperties(right, left, equalityComparer)]
    /\ UNCHANGED <<objects, exceptObjects>>

NextOwn ==
    \/ \E name \in ObjectNames, key \in StringKeys, value \in Values : PutProperty(name, key, value)
    \/ \E name \in ObjectNames, key \in StringKeys : DeleteProperty(name, key)
    \/ \E right \in ObjectArgs, equalityComparer \in Comparers :
          EqualOwnProperties(Ref("left", objects["left"]), right, equalityComparer)

\* Two map-likes of at most MaxEntries properties, compared.
SpecOwn == Init /\ [][NextOwn]_vars

-----------------------------------------------------------------------------
(* sortInV8ObjectInsertionOrder.  The elements are objects [id, key], id the *)
(* position in the array, and toKey gives the key.                           *)

RECURSIVE Partition(_, _, _)
\* the elements vals[i..] whose looksLikeNatural flag is want, in order
Partition(vals, flags, want) ==
    IF vals = <<>> THEN <<>>
    ELSE (IF flags[1] = want THEN <<vals[1]>> ELSE <<>>)
         \o Partition(Tail(vals), Tail(flags), want)

\* sortInV8ObjectInsertionOrder that leaves naturalNumberKeys unsorted
sortInV8ObjectInsertionOrder_NoSort(vals, toKey) ==
    LET flags == [i \in 1..Len(vals) |-> LooksLikeNatural(toKey[vals[i]])]
    IN  Partition(vals, flags, TRUE) \o Partition(vals, flags, FALSE)

sortInV8ObjectInsertionOrder(vals, toKey) ==
    LET flags == [i \in 1..Len(vals) |-> LooksLikeNatural(toKey[vals[i]])]
        naturalNumberKeys == Partition(vals, flags, TRUE)
        allOtherKeys == Partition(vals, flags, FALSE)
        toInt == [i \in 1..Len(naturalNumberKeys) |->
                    [item |-> naturalNumberKeys[i], n |-> ParseInt(toKey[naturalNumberKeys[i]])]]
        sorted == SortByN(toInt)
    IN  [i \in 1..Len(sorted) |-> sorted[i].item] \o allOtherKeys

\* the keys of the elements
SortKeys == {<<"0">>, <<"2">>, <<"1", "0">>, <<"0", "8">>, <<"a">>, <<"b">>}

\* the toKey callback: the key of an element
KeyOf(vals) == [t \in Range(vals) |-> t.key]

Push(key) ==
    /\ Len(sortInput) < MaxLen
    /\ sortInput' = Append(sortInput, [id |-> Len(sortInput) + 1, key |-> key])
    /\ ret' = [op |-> "push"]
    /\ UNCHANGED <<env, map, other, inputArray, sets, objects, lockVars>>

Sort ==
    /\ ret' = [op |-> "sort",
               result |-> sortInV8ObjectInsertionOrder(sortInput, KeyOf(sortInput))]
    /\ UNCHANGED <<env, map, other, sortInput, inputArray, sets, objects, lockVars>>

NextSort ==
    \/ \E key \in SortKeys : Push(key)
    \/ Sort

\* Every array of at most MaxLen elements with keys in SortKeys, sorted.
SpecSort == Init /\ [][NextSort]_vars

-----------------------------------------------------------------------------
(* Claims about getOrUpdate and getOrUpdateAndAllowUndefined *)

\* C4: while get(k) is not undefined, getOrUpdate(map, k, compute) returns the
\* stored value without invoking compute and without changing the map; when
\* get(k) is undefined (also when k holds a stored undefined) it invokes
\* compute, once, and returns what compute returned.
C4_GetOrUpdateComputesOnce ==
    [][ret'.op = "getOrUpdate" =>
         /\ MapGet(map, ret'.key) # Undefined =>
              /\ ret'.invoked = 0
              /\ map' = map
              /\ ret'.result = MapGet(map, ret'.key)
         /\ MapGet(map, ret'.key) = Undefined =>
              /\ ret'.invoked = 1
              /\ ret'.result = ret'.computed]_vars

\* a getOrUpdate on a key with a stored value other than undefined
C4_Witness ==
    /\ ret.op = "getOrUpdate" /\ ret.invoked = 0
    /\ ret.result # Undefined /\ MapGet(map, ret.key) = ret.result

\* a getOrUpdate that computes a value for a key that was present, holding
\* undefined, and now holds the computed value
C4_WitnessRecompute ==
    /\ ret.op = "getOrUpdate" /\ ret.had /\ ret.invoked = 1
    /\ ret.result # Undefined /\ MapGet(map, ret.key) = ret.result

\* C5: getOrUpdateAndAllowUndefined(map, k, compute) neither invokes compute
\* nor changes the map when has(k), and returns get(k), be it undefined;
\* when not has(k) it invokes compute once and stores the result at k.
C5_AllowUndefinedKeepsPresent ==
    [][ret'.op = "getOrUpdateAndAllowUndefined" =>
         /\ MapHas(map, ret'.key) =>
              /\ ret'.invoked = 0
              /\ map' = map
              /\ ret'.result = MapGet(map, ret'.key)
         /\ ~MapHas(map, ret'.key) =>
              /\ ret'.invoked = 1
              /\ MapHas(map', ret'.key)
              /\ MapGet(map', ret'.key) = ret'.computed
              /\ ret'.result = ret'.computed]_vars

\* getOrUpdateAndAllowUndefined on a key that holds a stored undefined
C5_Witness ==
    /\ ret.op = "getOrUpdateAndAllowUndefined" /\ ret.invoked = 0
    /\ ret.result = Undefined /\ MapHas(map, ret.key)

-----------------------------------------------------------------------------
(* Claims about multi-maps *)

\* every array the multi-map holds has at least one value
NoEmptyArray == \A i \in 1..Len(map.data) : Len(map.data[i].value.v) >= 1

\* C6: from an empty map, after any multiMapAdd and multiMapRemove calls no key
\* is mapped to an empty array: a multiMapRemove that empties the array of a key
\* deletes the key, so multiMapAdd(m, k, v) on an absent key followed by
\* multiMapRemove(m, k, v) leaves k absent.
C6_EmptyArraysArePruned ==
    /\ []NoEmptyArray
    /\ [][/\ ret.op = "multiMapAdd" /\ ~ret.had
          /\ ret'.op = "multiMapRemove" /\ ret'.key = ret.key /\ ret'.value = ret.value
          => ~MapHas(map', ret.key)]_vars

\* a multiMapRemove has removed the last value of a key, and another key is left
C6_Witness ==
    /\ ret.op = "multiMapRemove" /\ ret.had /\ ~MapHas(map, ret.key)
    /\ Len(map.data) = 1 /\ NoEmptyArray

-----------------------------------------------------------------------------
(* Claims about mapsAreEqual, mapLikeOfMap and mapOfMapLike *)

SameKeySet(a, b) == \A key \in Keys : MapHas(a, key) <=> MapHas(b, key)
ValuesMatch(a, b, valuesAreEqual) ==
    \A key \in Keys : MapHas(a, key) =>
        IF valuesAreEqual = "omitted" THEN MapGet(a, key) = MapGet(b, key)
        ELSE Call(valuesAreEqual, MapGet(a, key), MapGet(b, key))

\* C7: on two maps, mapsAreEqual is true exactly when both have the same keys
\* and, at every key, values that valuesAreEqual (=== when omitted) accepts;
\* the same map twice gives true, a map and null give false.
C7_MapsAreEqualIffSameKeysAndValues ==
    ret.op = "mapsAreEqual" =>
        /\ ret.left.t = "object" /\ ret.right.t = "object" /\ ret.left.id # ret.right.id
             => /\ ret.result <=> /\ SameKeySet(ret.left.obj, ret.right.obj)
                                   /\ ValuesMatch(ret.left.obj, ret.right.obj, ret.valuesAreEqual)
                /\ ret.reverse <=> /\ SameKeySet(ret.right.obj, ret.left.obj)
                                    /\ ValuesMatch(ret.right.obj, ret.left.obj, ret.valuesAreEqual)
        /\ ret.left.t = "object" /\ ret.right.t = "object" /\ ret.left.id = ret.right.id
             => ret.result
        /\ ret.right = Null => ~ret.result /\ ~ret.reverse

\* two maps with the same get at every key, one of them holding undefined at
\* a key the other one lacks, have been found different
C7_Witness ==
    /\ ret.op = "mapsAreEqual" /\ ret.left = Ref("map", map) /\ ret.right = Ref("other", other)
    /\ ret.valuesAreEqual = "omitted"
    /\ \A key \in Keys : MapGet(map, key) = MapGet(other, key)
    /\ \E key \in Keys : MapHas(map, key) /\ ~MapHas(other, key)
    /\ Len(other.data) >= 1
    /\ ~ret.result

\* C8: mapsAreEqual(m, m) is true, and with === or a symmetric valuesAreEqual
\* mapsAreEqual(a, b) = mapsAreEqual(b, a).
C8_MapsAreEqualReflexiveSymmetric ==
    ret.op = "mapsAreEqual" =>
        /\ ret.left = ret.right /\ ret.left.t = "object" => ret.result
        /\ ret.valuesAreEqual \in SymmetricComparers => ret.result = ret.reverse

\* a map and a map with fewer keys have been compared both ways
C8_Witness ==
    /\ ret.op = "mapsAreEqual" /\ ret.left = Ref("map", map) /\ ret.right = Ref("other", other)
    /\ ret.valuesAreEqual = "sameType"
    /\ Len(map.data) = 2 /\ Len(other.data) = 1
    /\ \E key \in Keys : MapHas(map, key) /\ MapHas(other, key)
    /\ ~ret.result /\ ~ret.reverse

\* C9: mapOfMapLike(mapLikeOfMap(m)) is a map equal to m by mapsAreEqual, with
\* the keys of m and the same value at each, also at keys holding undefined;
\* m is left as it was.
C9_RoundTrip ==
    /\ [](ret.op = "roundTrip" =>
            /\ ret.equal
            /\ SameKeySet(other, map)
            /\ \A key \in Keys : MapGet(other, key) = MapGet(map, key))
    /\ [][ret'.op = "roundTrip" => map' = map]_vars

\* a map with two keys, one holding undefined, has made the round trip
C9_Witness ==
    /\ ret.op = "roundTrip" /\ Len(map.data) = 2 /\ Len(other.data) = 2
    /\ \E key \in Keys : MapHas(map, key) /\ MapGet(map, key) = Undefined
    /\ \E key \in Keys : MapGet(map, key) # Undefined

-----------------------------------------------------------------------------
(* Claims about sortInV8ObjectInsertionOrder *)

\* "0", or digits without a leading zero: the decimal form of a number
IsNaturalKey(key) == key # <<>> /\ key[1] \in Digits /\ NumberToString(ParseInt(key)) = key
KeysOf(vals) == [i \in 1..Len(vals) |-> vals[i].key]

\* C10: the result is a permutation of values; the elements with a
\* natural-number key come first, in ascending order of the number, the other
\* elements follow in their original order.  ["b","2","a","0","10"] gives
\* ["0","2","10","b","a"], and "08" is not a natural-number key.
C10_SortedInV8Order ==
    ret.op = "sort" =>
        LET r == ret.result
        IN  /\ Len(r) = Len(sortInput)
            /\ {r[i] : i \in 1..Len(r)} = {sortInput[i] : i \in 1..Len(sortInput)}
            /\ \A i, j \in 1..Len(r) : i < j =>
                 /\ IsNaturalKey(r[j].key) => IsNaturalKey(r[i].key)
                 /\ IsNaturalKey(r[i].key) /\ IsNaturalKey(r[j].key)
                      => ParseInt(r[i].key) <= ParseInt(r[j].key)
                 /\ ~IsNaturalKey(r[i].key) /\ ~IsNaturalKey(r[j].key) => r[i].id < r[j].id
            /\ KeysOf(sortInput) = <<<<"b">>, <<"2">>, <<"a">>, <<"0">>, <<"1", "0">>>>
                 => KeysOf(r) = <<<<"0">>, <<"2">>, <<"1", "0">>, <<"b">>, <<"a">>>>
            /\ \A i \in 1..Len(r) : r[i].key = <<"0", "8">> =>
                 \A j \in 1..Len(r) : IsNaturalKey(r[j].key) => j < i

\* the array ["b","2","a","0","10"] has been sorted
C10_Witness ==
    /\ ret.op = "sort"
    /\ KeysOf(sortInput) = <<<<"b">>, <<"2">>, <<"a">>, <<"0">>, <<"1", "0">>>>
    /\ KeysOf(ret.result) = <<<<"0">>, <<"2">>, <<"1", "0">>, <<"b">>, <<"a">>>>

\* an array with "08" before natural-number keys has been sorted
C10_WitnessLeadingZero ==
    /\ ret.op = "sort" /\ Len(sortInput) >= 3
    /\ sortInput[1].key = <<"0", "8">> /\ sortInput[2].key = <<"1", "0">>
    /\ sortInput[3].key = <<"2">>

-----------------------------------------------------------------------------
(* Claims about tryDelete and setIfNotSet *)

\* what C11 says of a step that is a tryDelete
TryDeleteStep ==
    ret'.op = "tryDelete" =>
        LET current == MapGet(map, ret'.key)
        IN  /\ current # Undefined =>
                 /\ ret'.result = current
                 /\ ~MapHas(map', ret'.key)
                 /\ \A k \in Keys \ {ret'.key} :
                       /\ MapHas(map', k) = MapHas(map, k)
                       /\ MapGet(map', k) = MapGet(map, k)
            /\ current = Undefined =>
                 /\ ret'.result = Undefined
                 /\ map' = map
                 /\ MapHas(map', ret'.key) = MapHas(map, ret'.key)

\* C11: when the value stored at key is not undefined, tryDelete(map, key)
\* returns it, and afterwards has(key) is false and every other key has the
\* entry it had; when get(key) is undefined, the key absent or holding a stored
\* undefined, it returns undefined and the map is unchanged, so a key that
\* holds undefined stays present.
C11_TryDeleteRemovesDefinedOnly == [][TryDeleteStep]_vars

\* C11 holds of the native-backed maps.
C11_NativeTryDeleteRemovesDefinedOnly == [][usingNativeMaps(env) => TryDeleteStep]_vars

\* On every kind of map the entries enumerated after a tryDelete that returned
\* a value are those of before less one, which held that value.
C11_TryDeleteRemovesOneEntry ==
    [][ret'.op = "tryDelete" /\ MapGet(map, ret'.key) # Undefined =>
         \E i \in 1..Len(MapForEach(map)) :
            /\ MapForEach(map)[i].value = ret'.result
            /\ MapForEach(map') = RemoveAt(MapForEach(map), i)]_vars

\* C12: setIfNotSet(map, key, value) returns true exactly when has(key) was
\* false before, and then get(key) is value; when has(key) was true, also with
\* a stored undefined, it returns false and the map is unchanged.
C12_SetIfNotSetOnlyWhenAbsent ==
    [][ret'.op = "setIfNotSet" =>
         /\ ret'.result = ~MapHas(map, ret'.key)
         /\ ret'.result => MapHas(map', ret'.key) /\ MapGet(map', ret'.key) = ret'.value
         /\ ~ret'.result => map' = map /\ MapGet(map', ret'.key) = MapGet(map, ret'.key)]_vars

\* a setIfNotSet of a value on a key that holds a stored undefined has returned false
C12_Witness ==
    /\ ret.op = "setIfNotSet" /\ ~ret.result /\ ret.value # Undefined
    /\ MapHas(map, ret.key) /\ MapGet(map, ret.key) = Undefined

\* a setIfNotSet has added a second entry
C12_WitnessSet ==
    /\ ret.op = "setIfNotSet" /\ ret.result /\ MapGet(map, ret.key) = ret.value
    /\ Len(map.data) = 2

-----------------------------------------------------------------------------
(* Claims about arrayToMap *)

\* the indices of the elements of array with the key
IndicesOf(array, key) == {i \in 1..Len(array) : ItemKey[array[i]] = key}
Max(S) == CHOOSE x \in S : \A y \in S : y <= x

\* C13: the keys of arrayToMap(array, makeKey, makeValue) are exactly the
\* makeKey(x) for x in array, each key is mapped to the (made) value of the
\* element with the highest index among those with that key, and the size of
\* the map is the number of distinct keys.
C13_ArrayToMapLastWins ==
    ret.op = "arrayToMap" =>
        LET entries == MapForEach(map)
        IN  /\ \A str \in StringKeys : MapHas(map, Str(str)) <=> IndicesOf(inputArray, str) # {}
            /\ {entries[i].key : i \in 1..Len(entries)}
                 = {Str(ItemKey[inputArray[i]]) : i \in 1..Len(inputArray)}
            /\ \A str \in StringKeys : IndicesOf(inputArray, str) # {} =>
                 MapGet(map, Str(str)) = MadeValue(ret.makeValue, inputArray[Max(IndicesOf(inputArray, str))])
            /\ mapSize(env, map) = Cardinality({ItemKey[inputArray[i]] : i \in 1..Len(inputArray)})

\* an array with two different elements of the same key, between them an
\* element of another key, has been made a map of two keys
C13_Witness ==
    /\ ret.op = "arrayToMap" /\ Len(inputArray) = 3
    /\ ItemKey[inputArray[1]] = ItemKey[inputArray[3]] /\ inputArray[1] # inputArray[3]
    /\ ItemKey[inputArray[2]] # ItemKey[inputArray[1]]
    /\ mapSize(env, map) = 2
    /\ MapGet(map, Str(ItemKey[inputArray[1]])) = MadeValue(ret.makeValue, inputArray[3])

-----------------------------------------------------------------------------
(* Claims about findInMap, someInMap, someKeyInMap and someValueInMap *)

\* the <<value, key>> of the entries of map, in the order the map iterates
EntryArgs == [i \in 1..Len(MapForEach(map)) |-> <<MapForEach(map)[i].value, MapForEach(map)[i].key>>]
\* the indices of the entries f has a result for
HitsOf(f) == {i \in 1..Len(EntryArgs) : f[EntryArgs[i]] # Undefined}
Min(S) == CHOOSE x \in S : \A y \in S : x <= y

\* C14: findInMap(map, f) returns the result of f for the first entry, in the
\* iteration order of the map, that f has a result other than undefined for,
\* and undefined when the map is empty or f returns undefined for every
\* entry; with ES6 iterators and without.
C14_FindInMapReturnsFirst ==
    ret.op = "findInMap" =>
        IF HitsOf(ret.f) = {} THEN ret.result = Undefined
        ELSE ret.result = ret.f[EntryArgs[Min(HitsOf(ret.f))]]

\* f has a result for both entries of a ShimMap whose keys were set in the
\* order "a", "1", and findInMap has returned the result for "1", the first
\* entry in the iteration order
C14_Witness ==
    /\ ret.op = "findInMap" /\ env = "shim"
    /\ Len(map.data) = 2 /\ map.data[1].key = <<"a">> /\ EntryArgs[1][2] = Str(<<"1">>)
    /\ HitsOf(ret.f) = {1, 2}
    /\ ret.result = ret.f[EntryArgs[1]]

\* C15: once f has returned a value other than undefined, findInMap visits no
\* further entry of the map and does not invoke f again; with ES6 iterators
\* and without.
C15_FindInMapStopsIterating ==
    ret.op = "findInMap" /\ HitsOf(ret.f) # {} =>
        /\ ret.visited = Min(HitsOf(ret.f))
        /\ ret.invoked = Min(HitsOf(ret.f))

\* the part of C15 about f: it is not invoked again after its first result
C15_FindInMapStopsInvoking ==
    ret.op = "findInMap" /\ HitsOf(ret.f) # {} => ret.invoked = Min(HitsOf(ret.f))

\* the predicate applied to the i-th entry of map
Holds(i) ==
    IF ret.op = "someInMap" THEN ret.predicate[EntryArgs[i]]
    ELSE IF ret.op = "someKeyInMap" THEN ret.predicate[EntryArgs[i][2]]
    ELSE ret.predicate[EntryArgs[i][1]]

\* C16: someInMap, someKeyInMap and someValueInMap return true exactly when
\* the predicate is true of some entry (key, value) of the map, false for an
\* empty map; the predicate is invoked on the entries in order, and not again
\* after an invocation that returned true.
C16_SomeIsExistsAndShortCircuits ==
    ret.op \in {"someInMap", "someKeyInMap", "someValueInMap"} =>
        /\ ret.result <=> \E i \in 1..Len(EntryArgs) : Holds(i)
        /\ ret.invoked <= Len(EntryArgs)
        /\ \A i \in 1..(ret.invoked - 1) : ~Holds(i)
        /\ ~ret.result => ret.invoked = Len(EntryArgs)

\* someValueInMap on a map of two entries whose first value satisfies the
\* predicate has found it, invoking the predicate once
C16_Witness ==
    /\ ret.op = "someValueInMap" /\ Len(EntryArgs) = 2
    /\ Holds(1) /\ ret.result /\ ret.invoked = 1

-----------------------------------------------------------------------------
(* Claims about the values a multi-map holds *)

\* how often value is in the array stored at a key (stored is what get returns)
Count(stored, value) ==
    IF Truthy(stored) THEN Cardinality({i \in 1..Len(stored.v) : stored.v[i] = value}) ELSE 0
\* is value in the array that the multi-map holds at key?
Stored(m, key, value) == Count(MapGet(m, key), value) > 0
\* every key but key holds what it held
OtherKeysKept(key) ==
    \A k \in Keys \ {key} : MapHas(map', k) = MapHas(map, k) /\ MapGet(map', k) = MapGet(map, k)

\* a multiMapAdd adds one occurrence of value at key and returns the stored
\* array; a multiMapRemove of a value that is stored at key takes one
\* occurrence of it away, any other multiMapRemove changes nothing
MultiMapStep ==
    /\ ret'.op = "multiMapAdd" =>
         /\ \A v \in Values : Count(MapGet(map', ret'.key), v)
                                = Count(MapGet(map, ret'.key), v) + (IF v = ret'.value THEN 1 ELSE 0)
         /\ OtherKeysKept(ret'.key)
         /\ ret'.result = MapGet(map', ret'.key)
    /\ ret'.op = "multiMapRemove" =>
         IF Stored(map, ret'.key, ret'.value)
         THEN /\ \A v \in Values : Count(MapGet(map', ret'.key), v)
                                     = Count(MapGet(map, ret'.key), v) - (IF v = ret'.value THEN 1 ELSE 0)
              /\ OtherKeysKept(ret'.key)
         ELSE map' = map
    /\ ret'.op = "multiMapRemove" /\ ret'.value = Num(1)
         /\ MapGet(map, ret'.key) = Arr(<<Num(1), Num(2)>>)
         => MapGet(map', ret'.key) = Arr(<<Num(2)>>)
    /\ ret'.op = "multiMapRemove" /\ ret'.value = Num(2)
         /\ MapGet(map, ret'.key) = Arr(<<Num(2)>>)
         => ~MapHas(map', ret'.key)

\* C17: from an empty map, after any multiMapAdd and multiMapRemove calls the
\* array stored at each key holds, as a multiset, the values added under that
\* key less one occurrence for each multiMapRemove of a value that was stored
\* at the time: each call changes the multiset of its key by its one value and
\* no other key, a multiMapRemove on an absent key or of a value not stored
\* changes nothing, and multiMapAdd returns the array stored at the key
\* (add(k,1), add(k,2), remove(k,1) leave get(k) = [2], remove(k,2) then leaves
\* k absent).
C17_MultiMapHoldsAddedLessRemoved == [][MultiMapStep]_vars

\* C17 holds of the native-backed maps.
C17_NativeMultiMapHoldsAddedLessRemoved == [][usingNativeMaps(env) => MultiMapStep]_vars

-----------------------------------------------------------------------------
(* Claims about emptiness *)

\* C19: after any add, delete and clear on a set, setIsEmpty(set) is true
\* exactly when no string is in the set, and after any set, delete and clear
\* on a map, mapIsEmpty(map) is true exactly when mapSize(map) is 0.
C19_EmptinessAgreesWithContent ==
    /\ ret.op = "setIsEmpty" =>
         (ret.result <=> \A value \in SetValues : ~SetHas(sets[ret.name], value))
    /\ ret.op = "mapIsEmpty" =>
         /\ ret.result <=> mapSize(env, map) = 0
         /\ ret.result <=> \A key \in Keys : ~MapHas(map, key)

\* mapIsEmpty has found a map not empty whose only entry holds undefined, and
\* the set has been emptied by delete
C19_Witness ==
    /\ ret.op = "mapIsEmpty" /\ ~ret.result
    /\ Len(map.data) = 1 /\ map.data[1].value = Undefined
    /\ sets["x"].data = <<>>

\* setIsEmpty has found a set not empty after the delete of one of its two values
C19_WitnessSet ==
    /\ ret.op = "setIsEmpty" /\ ~ret.result /\ Len(sets["x"].data) = 1

-----------------------------------------------------------------------------
(* Claims about delete on the dictionary-mode containers *)

\* what C18 says of a delete on a ShimMap, the other keys being those in others
ShimMapDeleteStep(others) ==
    ret'.op = "mapDelete" /\ map.kind = "shim" =>
        /\ ret'.result = MapHas(map, ret'.key)
        /\ ~MapHas(map', ret'.key)
        /\ \A k \in others \ {ret'.key} :
              MapHas(map', k) = MapHas(map, k) /\ MapGet(map', k) = MapGet(map, k)
        /\ ~MapHas(map, ret'.key) => ~ret'.result /\ map' = map

\* what C18 says of a delete on a ShimStringSet
ShimStringSetDeleteStep ==
    ret'.op = "setDelete" /\ sets[ret'.name].kind = "shim" =>
        /\ ret'.result = SetHas(sets[ret'.name], ret'.value)
        /\ ~SetHas(sets'[ret'.name], ret'.value)
        /\ \A value \in SetValues \ {ret'.value} :
              SetHas(sets'[ret'.name], value) = SetHas(sets[ret'.name], value)
        /\ ~SetHas(sets[ret'.name], ret'.value) => ~ret'.result /\ sets' = sets

\* C18: on a ShimMap and on a ShimStringSet, delete(k) returns true exactly
\* when has(k) was true before the call; afterwards has(k) is false and every
\* other key keeps its presence and its value; delete of an absent key
\* returns false and changes nothing.
C18_ShimDeleteReturnsHadAndKeepsOthers ==
    [][ShimMapDeleteStep(Keys) /\ ShimStringSetDeleteStep]_vars

\* C18 holds of the ShimStringSet.
C18_ShimStringSetDeleteReturnsHad == [][ShimStringSetDeleteStep]_vars

\* C18 holds of the ShimMap among the keys of the type of k.
C18_ShimMapDeleteKeepsKeysOfSameType ==
    [][ShimMapDeleteStep({k \in Keys : k.t = ret'.key.t})]_vars

-----------------------------------------------------------------------------
(* Claims about setAggregate *)

\* C20: setAggregate(array, getSet) returns a new set that holds a string
\* exactly when the set getSet(x) of some element x of array holds it, the
\* empty set for an empty array, and it changes none of the sets getSet gives.
C20_SetAggregateIsUnion ==
    /\ [](ret.op = "setAggregate" =>
            /\ \A value \in SetValues :
                  SetHas(ret.result, value)
                    <=> \E i \in 1..Len(ret.array) : SetHas(sets[SetOf[ret.array[i]]], value)
            /\ Range(SetForEach(ret.result)) \subseteq SetValues
            /\ ret.array = <<>> => setIsEmpty(env, ret.result)
            /\ ret.result.kind = createSet(env).kind)
    /\ [][ret'.op = "setAggregate" => sets' = sets]_vars

\* the union of two sets that overlap, neither within the other, has been made
C20_Witness ==
    /\ ret.op = "setAggregate" /\ Len(ret.array) = 2 /\ ret.array[1] # ret.array[2]
    /\ \E value \in SetValues : SetHas(sets["x"], value) /\ SetHas(sets["y"], value)
    /\ \E value \in SetValues : SetHas(sets["x"], value) /\ ~SetHas(sets["y"], value)
    /\ \E value \in SetValues : ~SetHas(sets["x"], value) /\ SetHas(sets["y"], value)
    /\ \A value \in SetValues : SetHas(ret.result, value)

-----------------------------------------------------------------------------
(* Claims about the map after getOrUpdate *)

\* what C22 says of a step that is a getOrUpdate
GetOrUpdateStep ==
    ret'.op = "getOrUpdate" =>
        /\ MapHas(map', ret'.key)
        /\ MapGet(map', ret'.key) = ret'.result
        /\ \A k \in Keys \ {ret'.key} :
              MapHas(map', k) = MapHas(map, k) /\ MapGet(map', k) = MapGet(map, k)
        /\ mapSize(env, map') <= mapSize(env, map) + 1
        /\ mapSize(env, map') >= mapSize(env, map)
        /\ ret'.computed = Undefined => MapHas(map', ret'.key) /\ MapGet(map', ret'.key) = Undefined

\* C22: after getOrUpdate(map, k, compute) has returned r, has(k) is true and
\* get(k) is r, no key other than k has been added, removed or changed, and
\* the size of the map has grown by at most one; also when compute returns
\* undefined, and then k is present with the value undefined.
C22_GetOrUpdatePostcondition == [][GetOrUpdateStep]_vars

\* C22 holds of the native-backed maps.
C22_NativeGetOrUpdatePostcondition == [][usingNativeMaps(env) => GetOrUpdateStep]_vars

\* C22 holds of every map among the keys of the type of k.
C22_GetOrUpdateKeepsKeysOfSameType ==
    [][ret'.op = "getOrUpdate" =>
         /\ MapHas(map', ret'.key)
         /\ MapGet(map', ret'.key) = ret'.result
         /\ \A k \in {k2 \in Keys : k2.t = ret'.key.t} \ {ret'.key} :
               MapHas(map', k) = MapHas(map, k) /\ MapGet(map', k) = MapGet(map, k)
         /\ mapSize(env, map') <= mapSize(env, map) + 1
         /\ ret'.computed = Undefined => MapHas(map', ret'.key) /\ MapGet(map', ret'.key) = Undefined]_vars

-----------------------------------------------------------------------------
(* Claims about equalOwnProperties *)

SameOwnKeys(a, b) == \A key \in StringKeys : hasProperty(a, key) <=> hasProperty(b, key)
OwnValuesMatch(a, b, equalityComparer) ==
    \A key \in StringKeys : hasProperty(a, key) =>
        IF equalityComparer = "omitted" THEN ObjGet(a, key) = ObjGet(b, key)
        ELSE Call(equalityComparer, ObjGet(a, key), ObjGet(b, key))

\* C21: on two map-likes, equalOwnProperties is true exactly when both have the
\* same own keys and, at every key, values that the comparer (=== when
\* omitted) accepts; so it is false when a key is an own property of left and
\* not of right, and with === or a symmetric comparer
\* equalOwnProperties(a, b) = equalOwnProperties(b, a).
C21_EqualOwnPropertiesIsShallowEquality ==
    ret.op = "equalOwnProperties" /\ ret.right.t = "object" /\ ret.left.id # ret.right.id =>
        /\ ret.result <=> /\ SameOwnKeys(ret.left.obj, ret.right.obj)
                          /\ OwnValuesMatch(ret.left.obj, ret.right.obj, ret.equalityComparer)
        /\ (\E key \in StringKeys : /\ hasProperty(ret.left.obj, key)
                                    /\ ~hasProperty(ret.right.obj, key)) => ~ret.result
        /\ ret.equalityComparer \in SymmetricComparers => ret.result = ret.reverse

\* C21 holds when the comparer accepts no own value of left together with the
\* undefined that a missing property of right reads as.
C21_EqualOwnPropertiesWhenMissingIsUnequal ==
    /\ ret.op = "equalOwnProperties" /\ ret.right.t = "object" /\ ret.left.id # ret.right.id
    /\ \A key \in StringKeys :
          hasProperty(ret.left.obj, key) /\ ~hasProperty(ret.right.obj, key) =>
             ~(IF ret.equalityComparer = "omitted" THEN ObjGet(ret.left.obj, key) = Undefined
               ELSE Call(ret.equalityComparer, ObjGet(ret.left.obj, key), Undefined))
    => (ret.result <=> /\ SameOwnKeys(ret.left.obj, ret.right.obj)
                       /\ OwnValuesMatch(ret.left.obj, ret.right.obj, ret.equalityComparer))

====
